---- MODULE Spec2Model ----
(***************************************************************************)
(* Model of label_studio/ai_center/converter.py: the AiCenterFormat        *)
(* enumeration, AiCenterConverter._get_supported_formats (schema           *)
(* classification followed by the chain of list removals) and              *)
(* AiCenterConverter.convert / convert_to_pulc.                            *)
(*                                                                         *)
(* Two specifications share the variables:                                 *)
(*   Spec         calls of _get_supported_formats                          *)
(*   SpecConvert  calls of convert                                         *)
(***************************************************************************)
EXTENDS Integers, Sequences, FiniteSets, TLC

VARIABLES
    _data_keys,         \* self._data_keys (a list of data key names)
    pc,                 \* position inside _get_supported_formats
    n_infos,            \* entries of self._schema.values() iterated so far
    output_tag_types,   \* local set, line 151
    input_tag_types,    \* local set, line 152
    is_mig,             \* local flag, line 142
    logged,             \* logger.error was called during this call (line 159)
    result,             \* the returned list (format names)
    raised,             \* exception that left _get_supported_formats, or "none"
    seen_out_types,     \* history: types of all schema entries iterated in this call
    seen_in_types,      \* history: types of all input tags iterated in this call
    seen_text_plain,    \* history: a Text input with valueType # "url" was iterated
    seen_text_url,      \* history: a Text input with valueType = "url" was iterated
    cpc,                \* position inside convert / convert_to_pulc
    call,               \* arguments of the current (or last) convert call
    _format,            \* local of convert, line 123; "unbound" until assigned
    item_iterator,      \* local of convert_to_pulc, line 133
    records,            \* local list of convert_to_pulc, line 132
    iterated,           \* history: the items item_iterator has yielded in this call
    lib_calls,          \* invocations of Converter.convert (line 127) in this call
    craised,            \* exception that left convert, or "none"
    fs_dirs,            \* directories that exist
    fs_files            \* content of result.txt in each output directory

fvars == <<_data_keys, pc, n_infos, output_tag_types, input_tag_types, is_mig,
           logged, result, raised, seen_out_types, seen_in_types, seen_text_plain,
           seen_text_url>>

cvars == <<cpc, call, _format, item_iterator, records, iterated, lib_calls, craised,
           fs_dirs, fs_files>>

vars == <<fvars, cvars>>

-----------------------------------------------------------------------------
(* Bounds *)

\* entries of the schema (output tags) iterated in one call
MaxTags == 3

-----------------------------------------------------------------------------
(* The enumerations *)

\* label_studio_sdk Format members the module refers to, in declaration order
Format ==
    <<"JSON", "JSON_MIN", "CSV", "TSV", "CONLL2003", "COCO", "VOC",
      "BRUSH_TO_NUMPY", "BRUSH_TO_PNG", "ASR_MANIFEST", "YOLO", "YOLO_OBB">>

\* line 8: Enum('AiCenterFormat', list(Format.__members__) + ['PULC'])
AiCenterFormat == Format \o <<"PULC">>

Range(s) == {s[k] : k \in 1..Len(s)}

\* tag types the rules of lines 164-205 name, and one type no rule names
OutputTagTypes ==
    {"Labels", "RectangleLabels", "Rectangle", "PolygonLabels", "BrushLabels",
     "brushlabels", "Brush", "TextArea", "TimelineLabels", "Choices"}

InputTagTypes == {"Text", "Image", "Audio", "AudioPlus", "Video", "HyperText"}

\* an element of info["inputs"]; valueType "none" stands for an absent key
InputTags == [type : InputTagTypes, valueType : {"url", "none"}, valueList : BOOLEAN]

\* values of self._data_keys
DataKeyLists == {<<>>, <<"image">>, <<"image", "text">>}

-----------------------------------------------------------------------------
(* _get_supported_formats, lines 141-207 *)

\* variant: the early return taken only for more than two data keys
HasMultipleDataKeys_offByOne(keys) == Len(keys) > 2

\* line 143: len(self._data_keys) > 1
HasMultipleDataKeys(keys) == Len(keys) > 1

\* lines 144-150: the list returned for a project with several data keys
MultiKeyFormats == <<"JSON", "JSON_MIN", "CSV", "TSV", "PULC">>

\* variant: every input with valueType "url" is skipped, whatever its type
IsUrlText_anyType(input_tag) == input_tag.valueType = "url"

\* line 158: the input is a Text tag with valueType "url" (logged and skipped)
IsUrlText(input_tag) == input_tag.type = "Text" /\ input_tag.valueType = "url"

\* variant: the list is built in the key order of _FORMAT_INFO (lines 23-100)
AllFormats_infoOrder ==
    <<"JSON", "JSON_MIN", "CSV", "TSV", "CONLL2003", "COCO", "VOC", "YOLO", "YOLO_OBB",
      "BRUSH_TO_NUMPY", "BRUSH_TO_PNG", "ASR_MANIFEST", "PULC">>

\* line 163: all_formats = [f.name for f in AiCenterFormat]
AllFormats == AiCenterFormat

\* list.remove(x): removes the first occurrence, ValueError when x is absent
ListRemove(st, x) ==
    IF st.err THEN st
    ELSE IF x \notin Range(st.list) THEN [list |-> st.list, err |-> TRUE]
    ELSE LET i == CHOOSE k \in 1..Len(st.list) :
                    st.list[k] = x /\ \A j \in 1..(k-1) : st.list[j] # x
         IN  [list |-> SubSeq(st.list, 1, i-1) \o SubSeq(st.list, i+1, Len(st.list)),
              err  |-> FALSE]

RECURSIVE RemoveEach(_, _)
RemoveEach(st, names) ==
    IF names = <<>> THEN st
    ELSE RemoveEach(ListRemove(st, Head(names)), Tail(names))

\* line 164
DropCONLL2003(i, o, mig) == ~("Text" \in i /\ "Labels" \in o)

\* lines 166-173
DropVOC(i, o, mig) ==
    mig \/ ~( "Image" \in i
              /\ ( "RectangleLabels" \in o
                   \/ ("Rectangle" \in o /\ "Labels" \in o) ) )

\* variant: the condition read with `or` binding tighter than `and`
DropCOCO_precedence(i, o, mig) ==
    mig \/ ~( "Image" \in i
              /\ ("RectangleLabels" \in o \/ "PolygonLabels" \in o \/ "Rectangle" \in o)
              /\ ("Labels" \in o \/ "PolygonLabels" \in o)
              /\ "Labels" \in o )

\* lines 175-185 (Python: `and` binds tighter than `or`)
DropCOCO(i, o, mig) ==
    mig \/ ~( ("Image" \in i /\ ("RectangleLabels" \in o \/ "PolygonLabels" \in o))
              \/ ("Rectangle" \in o /\ "Labels" \in o)
              \/ ("PolygonLabels" \in o /\ "Labels" \in o) )

\* variant: the brush formats gated by is_mig like the detection formats
DropBrush_mig(i, o, mig) ==
    mig \/ ~( "Image" \in i
              /\ ( "BrushLabels" \in o
                   \/ "brushlabels" \in o
                   \/ ("Brush" \in o /\ "Labels" \in o) ) )

\* lines 188-196
DropBrush(i, o, mig) ==
    ~( "Image" \in i
       /\ ( "BrushLabels" \in o
            \/ "brushlabels" \in o
            \/ ("Brush" \in o /\ "Labels" \in o) ) )

\* lines 199-202
DropASR(i, o, mig) ==
    ~( ("Audio" \in i \/ "AudioPlus" \in i) /\ "TextArea" \in o )

\* line 204
DropYOLO_OBB(i, o, mig) == mig \/ ("Video" \in i /\ "TimelineLabels" \in o)

\* the names each branch removes, in the order of its remove() calls
RemovedCONLL2003 == <<"CONLL2003">>
\* variant: the VOC branch also removes YOLO, which the next branch removes again
RemovedVOC_andYOLO == <<"VOC", "YOLO">>
RemovedVOC       == <<"VOC">>
RemovedCOCO      == <<"COCO", "YOLO">>
RemovedBrush     == <<"BRUSH_TO_NUMPY", "BRUSH_TO_PNG">>
RemovedASR       == <<"ASR_MANIFEST">>
RemovedYOLO_OBB  == <<"YOLO_OBB">>

\* lines 163-207: the removal chain; err is a ValueError of list.remove
SupportedFormats(i, o, mig) ==
    LET s0 == [list |-> AllFormats, err |-> FALSE]
        s1 == IF DropCONLL2003(i, o, mig) THEN RemoveEach(s0, RemovedCONLL2003) ELSE s0
        s2 == IF DropVOC(i, o, mig)       THEN RemoveEach(s1, RemovedVOC)       ELSE s1
        s3 == IF DropCOCO(i, o, mig)      THEN RemoveEach(s2, RemovedCOCO)      ELSE s2
        s4 == IF DropBrush(i, o, mig)     THEN RemoveEach(s3, RemovedBrush)     ELSE s3
        s5 == IF DropASR(i, o, mig)       THEN RemoveEach(s4, RemovedASR)       ELSE s4
        s6 == IF DropYOLO_OBB(i, o, mig)  THEN RemoveEach(s5, RemovedYOLO_OBB)  ELSE s5
    IN  s6

FInit ==
    /\ _data_keys \in DataKeyLists
    /\ pc = "idle"
    /\ n_infos = 0
    /\ output_tag_types = {}
    /\ input_tag_types = {}
    /\ is_mig = FALSE
    /\ logged = FALSE
    /\ result = <<>>
    /\ raised = "none"
    /\ seen_out_types = {}
    /\ seen_in_types = {}
    /\ seen_text_plain = FALSE
    /\ seen_text_url = FALSE

\* lines 141-152: entry; the early return for several data keys
Call ==
    /\ pc \in {"idle", "done"}
    /\ n_infos' = 0
    /\ output_tag_types' = {}
    /\ input_tag_types' = {}
    /\ is_mig' = FALSE
    /\ logged' = FALSE
    /\ raised' = "none"
    /\ seen_out_types' = {}
    /\ seen_in_types' = {}
    /\ seen_text_plain' = FALSE
    /\ seen_text_url' = FALSE
    /\ IF HasMultipleDataKeys(_data_keys)
       THEN /\ result' = MultiKeyFormats
            /\ pc' = "done"
       ELSE /\ result' = <<>>
            /\ pc' = "schema"
    /\ UNCHANGED <<_data_keys, cvars>>

\* lines 153-154: the loop takes the next entry of self._schema.values()
NextInfo(type) ==
    /\ pc = "schema"
    /\ n_infos < MaxTags
    /\ n_infos' = n_infos + 1
    /\ output_tag_types' = output_tag_types \cup {type}
    /\ seen_out_types' = seen_out_types \cup {type}
    /\ pc' = "inputs"
    /\ UNCHANGED <<_data_keys, input_tag_types, is_mig, logged, result, raised,
                   seen_in_types, seen_text_plain, seen_text_url, cvars>>

\* lines 155-161: one iteration of the loop over info["inputs"]
NextInput(input_tag) ==
    /\ pc = "inputs"
    /\ is_mig' = (is_mig \/ input_tag.valueList)
    /\ IF IsUrlText(input_tag)
       THEN /\ logged' = TRUE
            /\ UNCHANGED input_tag_types
       ELSE /\ input_tag_types' = input_tag_types \cup {input_tag.type}
            /\ UNCHANGED logged
    /\ seen_in_types' = seen_in_types \cup {input_tag.type}
    /\ seen_text_plain' =
           (seen_text_plain \/ (input_tag.type = "Text" /\ input_tag.valueType # "url"))
    /\ seen_text_url' =
           (seen_text_url \/ (input_tag.type = "Text" /\ input_tag.valueType = "url"))
    /\ UNCHANGED <<_data_keys, pc, n_infos, output_tag_types, result, raised,
                   seen_out_types, cvars>>

\* line 155: info["inputs"] is exhausted, back to the outer loop
EndInputs ==
    /\ pc = "inputs"
    /\ pc' = "schema"
    /\ UNCHANGED <<_data_keys, n_infos, output_tag_types, input_tag_types, is_mig,
                   logged, result, raised, seen_out_types, seen_in_types,
                   seen_text_plain, seen_text_url, cvars>>

\* lines 163-207: the schema is exhausted; removals and return
Select ==
    /\ pc = "schema"
    /\ LET r == SupportedFormats(input_tag_types, output_tag_types, is_mig)
       IN  /\ raised' = IF r.err THEN "ValueError" ELSE "none"
           /\ result' = IF r.err THEN <<>> ELSE r.list
    /\ pc' = "done"
    /\ UNCHANGED <<_data_keys, n_infos, output_tag_types, input_tag_types, is_mig,
                   logged, seen_out_types, seen_in_types, seen_text_plain,
                   seen_text_url, cvars>>

-----------------------------------------------------------------------------
(* convert and convert_to_pulc, lines 121-139 *)

\* items one iteration yields / lines convert_to_pulc may hold
MaxRecords == 2

NoCall == [format |-> "none"]
NoFile == "absent"

\* characters of the strings of the model
TAB == "\t"
NL == "\n"
COMMA == ","

StrValue(s)     == [kind |-> "str", s |-> s, items |-> <<>>]
ListValue(list) == [kind |-> "list", s |-> <<>>, items |-> list]
Missing         == [kind |-> "missing", s |-> <<>>, items |-> <<>>]

\* item["input"]["image"] values
Images == {<<"a">>, <<"b">>}

\* item["output"]["choice"] values: a string, a list of strings, or no such key
Choices == {StrValue(<<"c">>), ListValue(<< <<"c">>, <<"d">> >>), Missing}

\* what iter_from_dir / iter_from_json_file yield
Items == [image : Images, choice : Choices]

\* the format argument: a name (str) or an enumeration member
FormatNames == Range(AiCenterFormat) \cup {"not_a_real_format", "pulc"}
FormatArgs ==
    [kind : {"str"}, name : FormatNames]
        \cup [kind : {"member"}, name : {"PULC", "JSON"}]

InputLocations == {"in1", "in2"}
OutputDirs == {"out"}
\* **kwargs: empty, or some extra options for the library
KwargsValues == {"none", "extra"}

\* variant: the lookup ignores case
from_string_anyCase(s) ==
    IF s \in Range(AiCenterFormat) THEN [ok |-> TRUE, member |-> s]
    ELSE IF s = "pulc" THEN [ok |-> TRUE, member |-> "PULC"]
    ELSE [ok |-> FALSE, member |-> "unbound"]

\* lines 11-15: cls[s], KeyError turned into ValueError
from_string(s) ==
    IF s \in Range(AiCenterFormat)
    THEN [ok |-> TRUE, member |-> s]
    ELSE [ok |-> FALSE, member |-> "unbound"]

\* line 133: iter_from_dir if is_dir else iter_from_json_file
ItemIterator(is_dir) == IF is_dir THEN "iter_from_dir" ELSE "iter_from_json_file"

\* str.join on the items of a list-valued result, one string per item
RECURSIVE StrJoin(_, _)
StrJoin(sep, strs) ==
    IF strs = <<>> THEN <<>>
    ELSE IF Len(strs) = 1 THEN strs[1]
    ELSE strs[1] \o <<sep>> \o StrJoin(sep, Tail(strs))

\* label_studio_sdk prettify_result: a string as it is, a list joined with ","
prettify_result(v) == IF v.kind = "list" THEN StrJoin(COMMA, v.items) ELSE v.s

\* line 136: f'{item["input"]["image"]}\t{prettify_result(item["output"]["choice"])}'
RecordLine(item) == item.image \o <<TAB>> \o prettify_result(item.choice)

\* variant: every line is terminated by a newline
FileContent_trailing(recs) ==
    IF recs = <<>> THEN <<>> ELSE StrJoin(NL, recs) \o <<NL>>

\* line 139: "\n".join(records)
FileContent(recs) == StrJoin(NL, recs)

\* variant: is_dir is not passed on, so the library sees its default True
SuperConvertArgs_noIsDir(input_data, output_data, format, is_dir, kwargs) ==
    [input_data |-> input_data, output_data |-> output_data, format |-> format,
     is_dir |-> TRUE, kwargs |-> kwargs]

\* line 127: the arguments super().convert receives
SuperConvertArgs(input_data, output_data, format, is_dir, kwargs) ==
    [input_data |-> input_data, output_data |-> output_data, format |-> format,
     is_dir |-> is_dir, kwargs |-> kwargs]

CInit ==
    /\ cpc = "ready"
    /\ call = NoCall
    /\ _format = "unbound"
    /\ item_iterator = "none"
    /\ records = <<>>
    /\ iterated = <<>>
    /\ lib_calls = <<>>
    /\ craised = "none"
    /\ fs_dirs = {}
    /\ fs_files = [d \in OutputDirs |-> NoFile]

\* lines 121-127, and lines 130-133 of convert_to_pulc when PULC is chosen
Convert(input_data, output_data, format, is_dir, kwargs) ==
    /\ cpc = "ready"
    /\ call' = [format |-> format, input_data |-> input_data,
                output_data |-> output_data, is_dir |-> is_dir, kwargs |-> kwargs]
    /\ records' = <<>>
    /\ iterated' = <<>>
    /\ LET r == IF format.kind = "str"
                THEN from_string(format.name)
                ELSE [ok |-> TRUE, member |-> "unbound"]
       IN  IF ~r.ok
           THEN \* line 15: ValueError leaves convert
                /\ craised' = "ValueError"
                /\ _format' = "unbound"
                /\ cpc' = "ready"
                /\ item_iterator' = "none"
                /\ lib_calls' = <<>>
                /\ UNCHANGED <<fs_dirs, fs_files>>
           ELSE IF r.member = "unbound"
           THEN \* line 124 reads _format, which line 123 did not assign
                /\ craised' = "UnboundLocalError"
                /\ _format' = "unbound"
                /\ cpc' = "ready"
                /\ item_iterator' = "none"
                /\ lib_calls' = <<>>
                /\ UNCHANGED <<fs_dirs, fs_files>>
           ELSE IF r.member = "PULC"
           THEN \* line 125, then lines 130-133
                /\ craised' = "none"
                /\ _format' = r.member
                /\ fs_dirs' = fs_dirs \cup {output_data}
                /\ item_iterator' = ItemIterator(is_dir)
                /\ lib_calls' = <<>>
                /\ cpc' = "iter"
                /\ UNCHANGED fs_files
           ELSE \* line 127
                /\ craised' = "none"
                /\ _format' = r.member
                /\ lib_calls' =
                       <<SuperConvertArgs(input_data, output_data, format, is_dir, kwargs)>>
                /\ item_iterator' = "none"
                /\ cpc' = "ready"
                /\ UNCHANGED <<fs_dirs, fs_files>>
    /\ UNCHANGED fvars

\* lines 135-136: the iterator yields one more item
IterItem(item) ==
    /\ cpc = "iter"
    /\ Len(iterated) < MaxRecords
    /\ iterated' = Append(iterated, item)
    /\ IF item.choice.kind = "missing"
       THEN \* item["output"]["choice"] raises KeyError
            /\ craised' = "KeyError"
            /\ cpc' = "ready"
            /\ UNCHANGED records
       ELSE /\ records' = Append(records, RecordLine(item))
            /\ UNCHANGED <<craised, cpc>>
    /\ UNCHANGED <<call, _format, item_iterator, lib_calls, fs_dirs, fs_files, fvars>>

\* lines 138-139: the iterator is exhausted; result.txt is written
WriteResult ==
    /\ cpc = "iter"
    /\ fs_files' = [fs_files EXCEPT ![call.output_data] = FileContent(records)]
    /\ cpc' = "ready"
    /\ UNCHANGED <<call, _format, item_iterator, records, iterated, lib_calls, craised,
                   fs_dirs, fvars>>

-----------------------------------------------------------------------------
(* Specifications *)

Init == FInit /\ CInit

Next ==
    \/ Call
    \/ \E type \in OutputTagTypes : NextInfo(type)
    \/ \E input_tag \in InputTags : NextInput(input_tag)
    \/ EndInputs
    \/ Select

Spec == Init /\ [][Next]_vars

NextConvert ==
    \/ \E input_data \in InputLocations, output_data \in OutputDirs,
          format \in FormatArgs, is_dir \in BOOLEAN, kwargs \in KwargsValues :
            Convert(input_data, output_data, format, is_dir, kwargs)
    \/ \E item \in Items : IterItem(item)
    \/ WriteResult

\* convert is exercised on one converter object
InitConvert == Init /\ _data_keys = <<"image">>

SpecConvert == InitConvert /\ [][NextConvert]_vars

-----------------------------------------------------------------------------
(* Properties of _get_supported_formats, checked under Spec *)

SingleKey == Len(_data_keys) <= 1
Returned == Range(result)
AlwaysKept == {"JSON", "JSON_MIN", "CSV", "TSV", "PULC"}

\* C1: with more than one data key the call returns exactly
\* JSON, JSON_MIN, CSV, TSV, PULC, whatever the schema holds.
C1_MultiKeyExactFive ==
    (pc = "done" /\ Len(_data_keys) > 1) =>
        /\ raised = "none"
        /\ result = <<"JSON", "JSON_MIN", "CSV", "TSV", "PULC">>

C1_Witness ==
    /\ pc = "done"
    /\ Len(_data_keys) = 2
    /\ Len(result) = 5

\* C2: with a single data key each tag-dependent format is returned if and
\* only if its rule-table condition holds for the classified tag types.
C2_RuleTable ==
    (pc = "done" /\ SingleKey) =>
        LET I == input_tag_types
            O == output_tag_types
            detect ==
                ~is_mig
                /\ ( ("Image" \in I /\ ("RectangleLabels" \in O \/ "PolygonLabels" \in O))
                     \/ ("Rectangle" \in O /\ "Labels" \in O)
                     \/ ("PolygonLabels" \in O /\ "Labels" \in O) )
            brush ==
                "Image" \in I
                /\ ( "BrushLabels" \in O \/ "brushlabels" \in O
                     \/ ("Brush" \in O /\ "Labels" \in O) )
        IN  /\ "CONLL2003" \in Returned <=> ("Text" \in I /\ "Labels" \in O)
            /\ "VOC" \in Returned <=>
                   ( ~is_mig /\ "Image" \in I
                     /\ ("RectangleLabels" \in O \/ ("Rectangle" \in O /\ "Labels" \in O)) )
            /\ "COCO" \in Returned <=> detect
            /\ "YOLO" \in Returned <=> detect
            /\ "BRUSH_TO_NUMPY" \in Returned <=> brush
            /\ "BRUSH_TO_PNG" \in Returned <=> brush
            /\ "ASR_MANIFEST" \in Returned <=>
                   (("Audio" \in I \/ "AudioPlus" \in I) /\ "TextArea" \in O)
            /\ "YOLO_OBB" \in Returned <=>
                   (~is_mig /\ ~("Video" \in I /\ "TimelineLabels" \in O))

\* COCO kept through Rectangle+Labels without any Image input, VOC dropped
C2_Witness ==
    /\ pc = "done"
    /\ SingleKey
    /\ "Image" \notin input_tag_types
    /\ "CONLL2003" \in Returned
    /\ "COCO" \in Returned
    /\ "VOC" \notin Returned

EnumIndex(name) == CHOOSE k \in 1..Len(AiCenterFormat) : AiCenterFormat[k] = name

C6_UrlTextSkipped ==
    seen_text_url =>
        /\ raised = "none"
        /\ logged
        /\ ("Text" \in input_tag_types <=> seen_text_plain)
        /\ (seen_in_types \ {"Text"}) \subseteq input_tag_types
        /\ seen_out_types \subseteq output_tag_types

C6_Witness ==
    /\ pc = "done"
    /\ seen_text_url
    /\ logged
    /\ "Text" \notin input_tag_types
    /\ "Image" \in input_tag_types
    /\ "Labels" \in output_tag_types
    /\ Len(result) > 0

\* C7: the call never raises (no remove() of an absent name) and always
\* returns JSON, JSON_MIN, CSV, TSV and PULC.
C7_NoRaiseAlwaysKept ==
    (pc = "done") =>
        /\ raised = "none"
        /\ AlwaysKept \subseteq Returned

\* every removal branch has fired
C7_Witness ==
    /\ pc = "done"
    /\ SingleKey
    /\ is_mig
    /\ output_tag_types = {"Choices"}
    /\ Returned = AlwaysKept

Without(seq, names) == SelectSeq(seq, LAMBDA x : x \notin names)

\* C8: with a single data key, the list returned with the multi-value flag set
\* is the list the same tag types give with the flag clear, minus VOC, COCO,
\* YOLO and YOLO_OBB.
C8_MultiValueRemovesFour ==
    (pc = "done" /\ SingleKey /\ is_mig) =>
        result = Without(SupportedFormats(input_tag_types, output_tag_types, FALSE).list,
                         {"VOC", "COCO", "YOLO", "YOLO_OBB"})

C8_Witness ==
    /\ pc = "done"
    /\ SingleKey
    /\ is_mig
    /\ "BRUSH_TO_PNG" \in Returned
    /\ "CONLL2003" \in Returned
    /\ "VOC" \in Range(SupportedFormats(input_tag_types, output_tag_types, FALSE).list)

-----------------------------------------------------------------------------
(* Properties of convert, checked under SpecConvert *)

Resolvable(format) == format.kind = "str" /\ format.name \in Range(AiCenterFormat)

\* C4: a convert call whose format name is no member of the extended
\* enumeration ends in ValueError and leaves directories and files as they
\* were, without invoking the library's convert.
C4_InvalidFormatNoWrites ==
    [][ ( /\ cpc = "ready"
          /\ call' # NoCall
          /\ call'.format.kind = "str"
          /\ call'.format.name \notin Range(AiCenterFormat) )
        => ( /\ craised' = "ValueError"
             /\ cpc' = "ready"
             /\ fs_dirs' = fs_dirs
             /\ fs_files' = fs_files
             /\ lib_calls' = <<>>
             /\ item_iterator' = "none" ) ]_vars

\* an earlier result.txt is still there after the failed call
C4_Witness ==
    /\ cpc = "ready"
    /\ call # NoCall
    /\ call.format = [kind |-> "str", name |-> "not_a_real_format"]
    /\ craised = "ValueError"
    /\ lib_calls = <<>>
    /\ fs_files["out"] # NoFile
    /\ fs_files["out"] = <<"a", "\t", "c">>

RECURSIVE CommaJoined(_)
CommaJoined(strs) ==
    IF strs = <<>> THEN <<>>
    ELSE IF Len(strs) = 1 THEN strs[1]
    ELSE CommaJoined(SubSeq(strs, 1, Len(strs) - 1)) \o <<",">> \o strs[Len(strs)]

ExpectedLine(item) ==
    item.image \o <<"\t">>
        \o (IF item.choice.kind = "list" THEN CommaJoined(item.choice.items)
            ELSE item.choice.s)

RECURSIVE ExpectedText(_)
ExpectedText(items) ==
    IF items = <<>> THEN <<>>
    ELSE IF Len(items) = 1 THEN ExpectedLine(items[1])
    ELSE ExpectedText(SubSeq(items, 1, Len(items) - 1))
             \o <<"\n">> \o ExpectedLine(items[Len(items)])

\* C5: a PULC conversion that returns leaves result.txt in the output
\* directory holding one line image<TAB>choice per iterated record, in
\* iteration order, joined by newlines without a trailing one; the iterator
\* is the directory one or the JSON-file one as is_dir says.
C5_PulcFileContent ==
    (cpc = "ready" /\ call # NoCall /\ _format = "PULC" /\ craised = "none") =>
        /\ call.output_data \in fs_dirs
        /\ fs_files[call.output_data] = ExpectedText(iterated)
        /\ item_iterator =
               (IF call.is_dir THEN "iter_from_dir" ELSE "iter_from_json_file")

C5_Witness ==
    /\ cpc = "ready"
    /\ call # NoCall
    /\ _format = "PULC"
    /\ craised = "none"
    /\ ~call.is_dir
    /\ Len(iterated) = 2
    /\ iterated[1].choice.kind = "list"
    /\ fs_files["out"] = <<"a", "\t", "c", ",", "d", "\n", "b", "\t", "c">>

\* C9: a convert call whose format name resolves goes to exactly one
\* serializer: PULC starts convert_to_pulc and never reaches the library;
\* any other format reaches the library's convert once, with the caller's
\* arguments, and convert_to_pulc neither runs nor writes.
C9_Dispatch ==
    [][ /\ ( cpc = "ready" /\ call' # NoCall /\ Resolvable(call'.format) ) =>
             IF call'.format.name = "PULC"
             THEN /\ lib_calls' = <<>>
                  /\ cpc' = "iter"
                  /\ item_iterator' # "none"
                  /\ call'.output_data \in fs_dirs'
             ELSE /\ lib_calls' =
                        << [input_data |-> call'.input_data,
                            output_data |-> call'.output_data,
                            format |-> call'.format,
                            is_dir |-> call'.is_dir,
                            kwargs |-> call'.kwargs] >>
                  /\ craised' = "none"
                  /\ cpc' = "ready"
                  /\ item_iterator' = "none"
                  /\ records' = <<>>
                  /\ fs_dirs' = fs_dirs
                  /\ fs_files' = fs_files
        /\ (cpc = "iter") => (lib_calls = <<>> /\ lib_calls' = <<>>) ]_vars

C9_Witness ==
    /\ cpc = "ready"
    /\ call # NoCall
    /\ call.format = [kind |-> "str", name |-> "COCO"]
    /\ ~call.is_dir
    /\ call.kwargs = "extra"
    /\ Len(lib_calls) = 1
    /\ lib_calls[1].is_dir = FALSE
    /\ lib_calls[1].kwargs = "extra"
    /\ fs_files["out"] # NoFile

\* C10: a convert call given an enumeration member behaves as the call given
\* that member's name: it does not fail and reaches the same serializer.
C10_MemberLikeName ==
    ( /\ cpc = "ready"
      /\ call # NoCall
      /\ call.format.kind = "member" ) =>
        /\ craised \notin {"UnboundLocalError", "ValueError"}
        /\ (call.format.name = "PULC" => item_iterator # "none")
        /\ (call.format.name # "PULC" => Len(lib_calls) = 1)

====
